---- MODULE Spec2Model ----
(***************************************************************************)
(* A model of cluster.py: clustering of log lines into event templates     *)
(* (cluster_lines), the event tree (clusters_to_tree), the matcher         *)
(* (find_event_in_tree), the extractor (extract_vars_from_line) and the    *)
(* scorer (calculate_prob).                                                *)
(*                                                                         *)
(* Representation.                                                         *)
(*  - A string is a sequence of items; an item is a word (a maximal run of *)
(*    non-whitespace characters, a TLA+ string) or SP (a whitespace run).  *)
(*    "" is << >>, "  " is <<SP>>, "a b" is <<"a", SP, "b">>.              *)
(*  - A token position is 0-based as in the code; line[p + 1] is the token *)
(*    at position p of the token list line.                                *)
(*  - A Python set of small ints (range(n) minus a set) and a dict keyed   *)
(*    by small ints are iterated in ascending order, as CPython does.      *)
(*    The order of a dict keyed by strings (new_cluster.values()) is a     *)
(*    nondeterministic choice.                                             *)
(*  - A nested dict tree (var_tree, the event tree) is the function from   *)
(*    the paths of its nodes to what a node holds.                         *)
(*  - A ratio is compared by cross multiplication; a threshold is a pair   *)
(*    <<numerator, denominator>>.                                          *)
(***************************************************************************)
EXTENDS Integers, Sequences, FiniteSets, TLC

VARIABLES lines, prev_clusters, threshold, pc, round, cluster_candidates,
          next_clusters, final_clusters, call, terminal, tree, ret

\* lines, prev_clusters, threshold: the arguments of cluster_lines.
\* pc: "start" (cluster_lines entered), "for" (inside the for loop of a
\*   round), "done" (final_clusters returned), "indexed" (clusters_to_tree
\*   returned), "returned" (a call on the catalog returned).
\* round: the number of the current iteration of `while cluster_candidates:`.
\* cluster_candidates: the clusters the for loop has still to visit.
\* next_clusters, final_clusters: the locals of cluster_lines.
\* call: the last call of find_cluster_position, as <<[cluster, position,
\*   indexes]>>: the cluster passed, the position returned and the
\*   cluster's indexes after the call (history, << >> before the first call).
\* terminal: the clusters passed to create_final_cluster so far, each with
\*   the event it yielded (history).
\* tree: the result of clusters_to_tree.
\* ret: the last call on the catalog and what it returned or raised.
vars == <<lines, prev_clusters, threshold, pc, round, cluster_candidates,
          next_clusters, final_clusters, call, terminal, tree, ret>>

\* ------------------------------------------------------------------ bounds
\* The longest batch of lines drawn from LineUniverse.
MaxLines == 3

\* ------------------------------------------------------------- constants
VAR_TOKEN == "*HVRY%"
SP == " "
\* Python's None where the code returns or holds an int.
None == -1
\* Python's None where the code returns or holds a string, list or dict.
NONE == <<"None">>

\* ------------------------------------------------------------ strings
Range(s) == {s[i] : i \in 1..Len(s)}

IsWord(x) == x # SP

\* line.strip().split(), line.split(), event.split()
Split(s) == SelectSeq(s, IsWord)

\* ' '.join(tokens); also the loop `event += token` / `event += ' ' + token`
RECURSIVE Join(_)
Join(tokens) ==
  IF Len(tokens) = 0 THEN << >>
  ELSE IF Len(tokens) = 1 THEN <<tokens[1]>>
  ELSE <<tokens[1], SP>> \o Join(Tail(tokens))

\* The elements of a set of ints in ascending order.
RECURSIVE Ascending(_)
Ascending(S) ==
  IF S = {} THEN << >>
  ELSE LET m == CHOOSE x \in S : \A y \in S : x <= y
       IN <<m>> \o Ascending(S \ {m})

\* All orders of the elements of a finite set.
RECURSIVE Orders(_)
Orders(S) ==
  IF S = {} THEN {<< >>}
  ELSE UNION {{<<x>> \o o : o \in Orders(S \ {x})} : x \in S}

\* -------------------------------------------------------------- Cluster
\* Cluster.__init__: `indexes or set()`, float(len(lines)),
\* `length or len(lines[0])`. Called with length = None by create_new_clusters.
Cluster(clines, indexes, length) ==
  [lines   |-> clines,
   indexes |-> indexes,
   size    |-> Len(clines),
   length  |-> IF length = None \/ length = 0 THEN Len(clines[1]) ELSE length]

\* cluster_lines_by_len: the lines that pass `if line:`, tokenized, in order.
Tokenized(ls) ==
  LET kept == SelectSeq(ls, LAMBDA l : l # << >>)
  IN [i \in 1..Len(kept) |-> Split(kept[i])]

\* prev_clusters.get(length, []) under `if prev_clusters:`; prev is a dict
\* from lengths to lists of token lists, the empty dict standing for None too
\* (both are false at `if prev_clusters:`).
PrevLines(prev, length) ==
  IF DOMAIN prev # {} /\ length \in DOMAIN prev THEN prev[length] ELSE << >>

\* The second loop of cluster_lines_by_len: one Cluster per length, the prior
\* lines of that length appended.
GroupByLen(toks, prev) ==
  LET lengths == Ascending({Len(toks[i]) : i \in 1..Len(toks)})
      group(n) == SelectSeq(toks, LAMBDA t : Len(t) = n) \o PrevLines(prev, n)
  IN [k \in 1..Len(lengths) |-> Cluster(group(lengths[k]), {}, lengths[k])]

cluster_lines_by_len(ls, prev) ==
  CHOOSE roots \in {GroupByLen(toks, prev) : toks \in {Tokenized(ls)}} : TRUE

\* create_cardinality_map: position -> set of tokens at that position.
create_cardinality_map(cluster) ==
  [p \in 0..(cluster.length - 1) |->
     {cluster.lines[i][p + 1] : i \in 1..cluster.size}]

\* ScanStep with `min_cardinality >= cardinality`: a later position of the
\* same cardinality replaces the candidate.
ScanStepLastTie(cluster, th, cmap, st, p) ==
  LET unique_tokens == cmap[p]
      cardinality   == Cardinality(unique_tokens)
  IN IF VAR_TOKEN \in unique_tokens THEN st
     ELSE IF cardinality = 1
       THEN [st EXCEPT !.indexes = st.indexes \cup {p}]
     ELSE IF (st.min_cardinality = 0 \/ st.min_cardinality >= cardinality)
             /\ cardinality * th[2] < th[1] * cluster.size
       THEN [st EXCEPT !.min_cardinality = cardinality,
                       !.candidate_position = p]
     ELSE st

\* ScanStep without `min_cardinality > cardinality`: the first position under
\* the threshold stays the candidate.
ScanStepFirstFit(cluster, th, cmap, st, p) ==
  LET unique_tokens == cmap[p]
      cardinality   == Cardinality(unique_tokens)
  IN IF VAR_TOKEN \in unique_tokens THEN st
     ELSE IF cardinality = 1
       THEN [st EXCEPT !.indexes = st.indexes \cup {p}]
     ELSE IF st.min_cardinality = 0
             /\ cardinality * th[2] < th[1] * cluster.size
       THEN [st EXCEPT !.min_cardinality = cardinality,
                       !.candidate_position = p]
     ELSE st

\* One iteration of the loop of find_cluster_position over position p.
\* st = [indexes, min_cardinality, candidate_position]; min_cardinality 0 is
\* the code's None (`not min_cardinality`).
ScanStep(cluster, th, cmap, st, p) ==
  LET unique_tokens == cmap[p]
      cardinality   == Cardinality(unique_tokens)
  IN IF VAR_TOKEN \in unique_tokens THEN st
     ELSE IF cardinality = 1
       THEN [st EXCEPT !.indexes = st.indexes \cup {p}]
     ELSE IF (st.min_cardinality = 0 \/ st.min_cardinality > cardinality)
             /\ cardinality * th[2] < th[1] * cluster.size
       THEN [st EXCEPT !.min_cardinality = cardinality,
                       !.candidate_position = p]
     ELSE st

RECURSIVE Scan(_, _, _, _, _)
Scan(cluster, th, cmap, st, todo) ==
  IF todo = << >> THEN st
  ELSE Scan(cluster, th, cmap, ScanStep(cluster, th, cmap, st, Head(todo)),
            Tail(todo))

\* find_cluster_position: the returned position (None: no split) and the
\* cluster's indexes after the call.
find_cluster_position(cluster, th) ==
  IF cluster.size = 1
  THEN [position |-> None, indexes |-> 0..(cluster.length - 1)]
  ELSE LET st == Scan(cluster, th, create_cardinality_map(cluster),
                      [indexes |-> cluster.indexes, min_cardinality |-> 0,
                       candidate_position |-> None],
                      Ascending((0..(cluster.length - 1)) \ cluster.indexes))
       IN [position |-> st.candidate_position, indexes |-> st.indexes]

\* The keys of new_cluster in create_new_clusters.
SplitValues(cluster, candidate_position) ==
  {cluster.lines[i][candidate_position + 1] : i \in 1..cluster.size}

\* create_new_clusters with `new_cluster[token] = [line]`: a later line of the
\* same value replaces the earlier ones.
create_new_clusters_overwrite(cluster, candidate_position, order) ==
  LET indexes == {candidate_position} \cup cluster.indexes
      last(v) == CHOOSE i \in 1..cluster.size :
                   /\ cluster.lines[i][candidate_position + 1] = v
                   /\ \A j \in (i + 1)..cluster.size :
                        cluster.lines[j][candidate_position + 1] # v
  IN [k \in 1..Len(order) |->
        Cluster(<<cluster.lines[last(order[k])]>>, indexes, None)]

\* create_new_clusters with `indexes = cluster.indexes`: the split position
\* is not recorded.
create_new_clusters_unrecorded(cluster, candidate_position, order) ==
  [k \in 1..Len(order) |->
     Cluster(SelectSeq(cluster.lines,
                       LAMBDA l : l[candidate_position + 1] = order[k]),
             cluster.indexes, None)]

\* create_new_clusters; order is the order of new_cluster.values().
create_new_clusters(cluster, candidate_position, order) ==
  LET indexes == {candidate_position} \cup cluster.indexes
  IN [k \in 1..Len(order) |->
        Cluster(SelectSeq(cluster.lines,
                          LAMBDA l : l[candidate_position + 1] = order[k]),
                indexes, None)]

\* The values of a line at the variable positions, in ascending position order.
VarValues(line, var_positions) ==
  LET ps == Ascending(var_positions)
  IN [k \in 1..Len(ps) |-> line[ps[k] + 1]]

Prefixes(s) == {SubSeq(s, 1, n) : n \in 1..Len(s)}

\* create_final_cluster: [event, data]; data.vars maps the path of each node
\* of var_tree to its count (children of a node: the paths one longer).
create_final_cluster(cluster) ==
  LET example_line  == cluster.lines[1]
      line_positions == 0..(cluster.length - 1)
      var_positions == line_positions \ cluster.indexes
      event == IF cluster.indexes = {} THEN Join(example_line)
               ELSE Join([k \in 1..cluster.length |->
                            IF (k - 1) \in var_positions THEN VAR_TOKEN
                            ELSE example_line[k]])
      paths == IF cluster.indexes = {} THEN {}
               ELSE UNION {Prefixes(VarValues(cluster.lines[i], var_positions))
                             : i \in 1..cluster.size}
      var_tree == [p \in paths |->
                     Cardinality({i \in 1..cluster.size :
                        p \in Prefixes(VarValues(cluster.lines[i], var_positions))})]
  IN [event |-> event,
      data  |-> [vars |-> var_tree, total_lines |-> cluster.size,
                 line_len |-> cluster.length]]

\* final_clusters[event] = event_data
DictSet(d, k, v) == [x \in DOMAIN d \cup {k} |-> IF x = k THEN v ELSE d[x]]

EmptyDict == [x \in {} |-> 0]

\* ------------------------------------------------- index, match, score
\* clusters_to_tree: the tree maps a length to the set of paths of the nodes
\* below its bucket (a node's children: the paths one longer).
clusters_to_tree(clusters) ==
  [n \in {clusters[e].line_len : e \in DOMAIN clusters} |->
     UNION {Prefixes(Split(e)) :
              e \in {x \in DOMAIN clusters : clusters[x].line_len = n}}]

\* The loop of find_event_in_tree from token i on; path is the branch reached.
RECURSIVE MatchWalk(_, _, _, _)
MatchWalk(paths, tokens, i, path) ==
  IF i > Len(tokens) THEN Join(path)
  ELSE IF Append(path, tokens[i]) \in paths
    THEN MatchWalk(paths, tokens, i + 1, Append(path, tokens[i]))
  ELSE IF Append(path, VAR_TOKEN) \in paths
    THEN MatchWalk(paths, tokens, i + 1, Append(path, VAR_TOKEN))
  ELSE NONE

\* find_event_in_tree: tree.get(length) is None for a missing bucket, and
\* branch.get(token) on None raises AttributeError in the first iteration.
find_event_in_tree(t, line) ==
  LET tokens == Split(line)
      length == Len(tokens)
  IN IF length = 0 THEN [raised |-> "", value |-> << >>]
     ELSE IF length \notin DOMAIN t
       THEN [raised |-> "AttributeError", value |-> << >>]
     ELSE [raised |-> "", value |-> MatchWalk(t[length], tokens, 1, << >>)]

\* extract_vars_from_line: line[i] raises IndexError past the end of the line.
extract_vars_from_line(line, event) ==
  LET toks    == Split(line)
      etokens == Split(event)
      marked  == Ascending({k \in 1..Len(etokens) : etokens[k] = VAR_TOKEN})
  IN IF \E k \in Range(marked) : k > Len(toks)
     THEN [raised |-> "IndexError", value |-> << >>]
     ELSE [raised |-> "", value |-> [j \in 1..Len(marked) |-> toks[marked[j]]]]

\* level['children'] of the node at path in var_tree.
Children(var_tree, path) ==
  {q \in DOMAIN var_tree :
     Len(q) = Len(path) + 1 /\ SubSeq(q, 1, Len(path)) = path}

\* The while loop of calculate_prob; i is the code's i, path the node `level`.
RECURSIVE ProbWalk(_, _, _, _, _)
ProbWalk(var_tree, variables, i, path, count) ==
  IF Children(var_tree, path) # {} /\ i < Len(variables)
  THEN IF Append(path, variables[i + 1]) \in DOMAIN var_tree
       THEN ProbWalk(var_tree, variables, i + 1, Append(path, variables[i + 1]),
                     var_tree[Append(path, variables[i + 1])])
       ELSE count
  ELSE count

\* calculate_prob: prob = <<event_prob numerator, denominator, var_prob
\* numerator, denominator>>, a var_prob of None having denominator 0.
\* var_tree.get(variables[0]) is None for an absent value, and None['count']
\* raises TypeError. The loop starts from count 1: `count = level['count']`
\* is followed by `count = 1`.
calculate_prob(event, variables, clusters, total_lines) ==
  IF event \notin DOMAIN clusters
  THEN [raised |-> "", prob |-> <<1, total_lines + 1, 0, 0>>]
  ELSE LET entry    == clusters[event]
           var_tree == entry.vars
       IN IF variables = << >>
          THEN [raised |-> "", prob |-> <<entry.total_lines, total_lines, 0, 0>>]
          ELSE IF <<variables[1]>> \notin DOMAIN var_tree
            THEN [raised |-> "TypeError", prob |-> << >>]
          ELSE [raised |-> "",
                prob |-> <<entry.total_lines, total_lines,
                           ProbWalk(var_tree, variables, 1, <<variables[1]>>, 1),
                           entry.total_lines>>]

\* ------------------------------------------------------------- inputs
Line(tokens) == Join(tokens)

\* The raw lines a batch is drawn from: "", " ", one- and two-token lines.
LineUniverse ==
  {<< >>, <<SP>>, Line(<<"a">>), Line(<<"b">>),
   Line(<<"a", "a">>), Line(<<"a", "b">>), Line(<<"b", "a">>),
   Line(<<"c", "a">>)}

\* Scenario A of the specification.
ScenarioA ==
  <<Line(<<"ssh", "10.0.0.1", "connect">>),
    Line(<<"ssh", "10.0.0.2", "connect">>),
    Line(<<"ssh", "10.0.0.1", "disconnect">>)>>

\* A batch that splits on position 1 before position 0.
ScenarioSecond ==
  <<Line(<<"a", "a">>), Line(<<"b", "a">>), Line(<<"c", "a">>),
    Line(<<"a", "b">>)>>

\* A batch of two-token lines that is split twice.
ScenarioDeep ==
  <<Line(<<"a", "a">>), Line(<<"a", "b">>), Line(<<"b", "a">>),
    Line(<<"a", "a">>)>>

\* A batch whose template has two variable positions (at threshold 0.6).
ScenarioTwoVars ==
  <<Line(<<"x", "a", "b">>), Line(<<"x", "a", "d">>), Line(<<"x", "c", "e">>)>>

Batches ==
  UNION {[1..n -> LineUniverse] : n \in 0..MaxLines}
    \cup {ScenarioA, ScenarioSecond, ScenarioDeep, ScenarioTwoVars}

\* prev_clusters: absent, or one previously discovered event of length 2.
PriorCatalogs == {EmptyDict, [n \in {2} |-> <<<<"a", VAR_TOKEN>>>>]}

\* threshold: 0.9 (the default) and 0.6.
Thresholds == {<<9, 10>>, <<3, 5>>}

NoRet == [op |-> "", line |-> << >>, event |-> << >>, variables |-> << >>,
          total |-> 0, raised |-> "", value |-> << >>, prob |-> << >>]

Init ==
  /\ lines \in Batches
  /\ prev_clusters \in PriorCatalogs
  /\ threshold \in Thresholds
  /\ pc = "start"
  /\ round = 0
  /\ cluster_candidates = << >>
  /\ next_clusters = << >>
  /\ final_clusters = EmptyDict
  /\ call = << >>
  /\ terminal = << >>
  /\ tree = EmptyDict
  /\ ret = NoRet

\* ------------------------------------------------------------ actions
\* cluster_lines up to the first test of `while cluster_candidates:`.
Partition ==
  /\ pc = "start"
  /\ \E roots \in {cluster_lines_by_len(lines, prev_clusters)} :
        /\ cluster_candidates' = roots
        /\ pc' = IF roots = << >> THEN "done" ELSE "for"
        /\ round' = IF roots = << >> THEN round ELSE round + 1
  /\ UNCHANGED <<lines, prev_clusters, threshold, next_clusters,
                 final_clusters, call, terminal, tree, ret>>

\* One iteration of `for cluster in cluster_candidates:` that finds a
\* candidate position. cluster_candidates holds the clusters still to visit.
SplitCluster ==
  /\ pc = "for"
  /\ cluster_candidates # << >>
  /\ \E cluster \in {Head(cluster_candidates)} :
     \E found \in {find_cluster_position(cluster, threshold)} :
     \E after \in {[cluster EXCEPT !.indexes = found.indexes]} :
        /\ found.position # None
        /\ \E order \in Orders(SplitValues(after, found.position)) :
             next_clusters' =
               next_clusters \o create_new_clusters(after, found.position, order)
        /\ call' = <<[cluster |-> cluster, position |-> found.position,
                      indexes |-> found.indexes]>>
  /\ cluster_candidates' = Tail(cluster_candidates)
  /\ UNCHANGED <<lines, prev_clusters, threshold, pc, round, final_clusters,
                 terminal, tree, ret>>

\* One iteration of the for loop that finds no candidate position.
FinalizeCluster ==
  /\ pc = "for"
  /\ cluster_candidates # << >>
  /\ \E cluster \in {Head(cluster_candidates)} :
     \E found \in {find_cluster_position(cluster, threshold)} :
     \E after \in {[cluster EXCEPT !.indexes = found.indexes]} :
     \E final \in {create_final_cluster(after)} :
        /\ found.position = None
        /\ final_clusters' = DictSet(final_clusters, final.event, final.data)
        /\ terminal' = Append(terminal, [cluster |-> after, event |-> final.event])
        /\ call' = <<[cluster |-> cluster, position |-> found.position,
                      indexes |-> found.indexes]>>
  /\ cluster_candidates' = Tail(cluster_candidates)
  /\ UNCHANGED <<lines, prev_clusters, threshold, pc, round, next_clusters,
                 tree, ret>>

\* The end of the for loop: `cluster_candidates = next_clusters`, the while
\* test, and `next_clusters = []` or `return final_clusters`.
NextRound ==
  /\ pc = "for"
  /\ cluster_candidates = << >>
  /\ cluster_candidates' = next_clusters
  /\ next_clusters' = << >>
  /\ pc' = IF next_clusters = << >> THEN "done" ELSE "for"
  /\ round' = IF next_clusters = << >> THEN round ELSE round + 1
  /\ UNCHANGED <<lines, prev_clusters, threshold, final_clusters, call,
                 terminal, tree, ret>>

Next == Partition \/ SplitCluster \/ FinalizeCluster \/ NextRound

Spec == Init /\ [][Next]_vars

\* ------------------------------------------------- the calls on a catalog
\* The lines, events and variable lists the caller passes.
QueryLines == LineUniverse \cup Range(lines)

QueryEvents == DOMAIN final_clusters \cup {Line(<<"z", VAR_TOKEN>>)}

QueryVariables(event) ==
  UNION {[1..n -> {"a", "b"}] : n \in 0..2}
    \cup {extract_vars_from_line(l, event).value : l \in Range(lines)}

QueryTotals == {Len(lines), Len(lines) + 1} \ {0}

\* clusters_to_tree on the catalog cluster_lines returned.
BuildIndex ==
  /\ pc = "done"
  /\ tree' = clusters_to_tree(final_clusters)
  /\ pc' = "indexed"
  /\ UNCHANGED <<lines, prev_clusters, threshold, round, cluster_candidates,
                 next_clusters, final_clusters, call, terminal, ret>>

\* find_event_in_tree on the index and a line.
Match ==
  /\ pc = "indexed"
  /\ \E line \in QueryLines :
       LET r == find_event_in_tree(tree, line)
       IN ret' = [NoRet EXCEPT !.op = "find_event_in_tree", !.line = line,
                               !.raised = r.raised, !.value = r.value]
  /\ pc' = "returned"
  /\ UNCHANGED <<lines, prev_clusters, threshold, round, cluster_candidates,
                 next_clusters, final_clusters, call, terminal, tree>>

\* extract_vars_from_line on a line and an event of the catalog.
Extract ==
  /\ pc = "indexed"
  /\ \E line \in QueryLines, event \in DOMAIN final_clusters :
       LET r == extract_vars_from_line(line, event)
       IN ret' = [NoRet EXCEPT !.op = "extract_vars_from_line", !.line = line,
                               !.event = event, !.raised = r.raised,
                               !.value = r.value]
  /\ pc' = "returned"
  /\ UNCHANGED <<lines, prev_clusters, threshold, round, cluster_candidates,
                 next_clusters, final_clusters, call, terminal, tree>>

\* calculate_prob on an event, a variable list, the catalog and a line total.
Score ==
  /\ pc = "indexed"
  /\ \E event \in QueryEvents, total \in QueryTotals :
       \E variables \in QueryVariables(event) :
         LET r == calculate_prob(event, variables, final_clusters, total)
         IN ret' = [NoRet EXCEPT !.op = "calculate_prob", !.event = event,
                                 !.variables = variables, !.total = total,
                                 !.raised = r.raised, !.prob = r.prob]
  /\ pc' = "returned"
  /\ UNCHANGED <<lines, prev_clusters, threshold, round, cluster_candidates,
                 next_clusters, final_clusters, call, terminal, tree>>

NextQuery == Next \/ BuildIndex \/ Match \/ Extract \/ Score

SpecQuery == Init /\ [][NextQuery]_vars

\* The loop of cluster_lines is sequential code that always takes its next step.
SpecLive == Spec /\ WF_vars(Next)

\* ------------------------------------------------------ claim vocabulary
RECURSIVE SumSeq(_)
SumSeq(s) == IF s = << >> THEN 0 ELSE Head(s) + SumSeq(Tail(s))

CountIn(s, x) == Cardinality({i \in 1..Len(s) : s[i] = x})

Positions(cluster) == 0..(Len(cluster.lines[1]) - 1)

\* The tokens the members of a group hold at position q.
ValuesAt(cluster, q) == {cluster.lines[i][q + 1] : i \in 1..Len(cluster.lines)}

\* Position q meets the conditions of a split position of the group.
Qualifies(cluster, q) ==
  /\ q \notin cluster.indexes
  /\ VAR_TOKEN \notin ValuesAt(cluster, q)
  /\ Cardinality(ValuesAt(cluster, q)) >= 2
  /\ Cardinality(ValuesAt(cluster, q)) * threshold[2]
       < threshold[1] * Len(cluster.lines)

\* Token counts of the raw lines, and the prior lines merged for a length.
TokenCount(line) == Len(SelectSeq(line, LAMBDA x : x # SP))
InputOfLen(n) == Cardinality({i \in 1..Len(lines) : TokenCount(lines[i]) = n})
PriorMerged(n) ==
  IF n \in DOMAIN prev_clusters /\ InputOfLen(n) > 0
  THEN prev_clusters[n] ELSE << >>
InputTokens == {SelectSeq(lines[i], LAMBDA x : x # SP) : i \in 1..Len(lines)}
CountInput(t) ==
  Cardinality({i \in 1..Len(lines) : SelectSeq(lines[i], LAMBDA x : x # SP) = t})

TotalOfLen(n) ==
  LET es == {e \in DOMAIN final_clusters : final_clusters[e].line_len = n}
      RECURSIVE Sum(_)
      Sum(S) == IF S = {} THEN 0
                ELSE LET e == CHOOSE x \in S : TRUE
                     IN final_clusters[e].total_lines + Sum(S \ {e})
  IN Sum(es)

\* ---------------------------------------------------------------- C1
\* C1 (as stated): Scenario A with no prior catalog and threshold 0.9 yields
\* exactly the templates "ssh *HVRY% connect" (totalLines 2) and
\* "ssh *HVRY% disconnect" (totalLines 1), both of lineLength 3.
C1_ScenarioA_AsStated ==
  (pc = "done" /\ lines = ScenarioA /\ DOMAIN prev_clusters = {}
     /\ threshold = <<9, 10>>)
  => /\ DOMAIN final_clusters =
          {<<"ssh", SP, VAR_TOKEN, SP, "connect">>,
           <<"ssh", SP, VAR_TOKEN, SP, "disconnect">>}
     /\ \A e \in DOMAIN final_clusters : final_clusters[e].line_len = 3
     /\ final_clusters[<<"ssh", SP, VAR_TOKEN, SP, "connect">>].total_lines = 2
     /\ final_clusters[<<"ssh", SP, VAR_TOKEN, SP, "disconnect">>].total_lines = 1

\* C1 (amended): Scenario A with no prior catalog and threshold 0.9 yields
\* exactly the templates "ssh 10.0.0.1 *HVRY%" (totalLines 2) and
\* "ssh 10.0.0.2 connect" (totalLines 1), both of lineLength 3.
C1_ScenarioA_Amended ==
  (pc = "done" /\ lines = ScenarioA /\ DOMAIN prev_clusters = {}
     /\ threshold = <<9, 10>>)
  => /\ DOMAIN final_clusters =
          {<<"ssh", SP, "10.0.0.1", SP, VAR_TOKEN>>,
           <<"ssh", SP, "10.0.0.2", SP, "connect">>}
     /\ \A e \in DOMAIN final_clusters : final_clusters[e].line_len = 3
     /\ final_clusters[<<"ssh", SP, "10.0.0.1", SP, VAR_TOKEN>>].total_lines = 2
     /\ final_clusters[<<"ssh", SP, "10.0.0.2", SP, "connect">>].total_lines = 1

C1_Witness ==
  /\ pc = "done" /\ lines = ScenarioA /\ DOMAIN prev_clusters = {}
  /\ threshold = <<9, 10>>
  /\ Len(terminal) = 2

\* ---------------------------------------------------------------- C3
\* C3: when the worklist is empty, every input line with at least one token
\* (and every merged prior line) is a member of exactly one terminal group,
\* as often as it was given; no two terminal groups yield the same template
\* identity; and for every token length n >= 1 present in the input, the
\* totalLines of the catalog's templates of lineLength n sum to the number of
\* input lines of n tokens plus the number of prior lines merged for n.
C3_Coverage ==
  pc = "done" =>
    /\ \A n \in {Len(t) : t \in InputTokens} \ {0} :
         /\ \A t \in {x \in InputTokens : Len(x) = n} \cup Range(PriorMerged(n)) :
              /\ Cardinality({g \in 1..Len(terminal) :
                               CountIn(terminal[g].cluster.lines, t) > 0}) = 1
              /\ SumSeq([g \in 1..Len(terminal) |->
                           CountIn(terminal[g].cluster.lines, t)])
                   = CountInput(t) + CountIn(PriorMerged(n), t)
         /\ TotalOfLen(n) = InputOfLen(n) + Len(PriorMerged(n))
    /\ \A g, h \in 1..Len(terminal) :
         g # h => terminal[g].event # terminal[h].event

C3_Witness ==
  /\ pc = "done"
  /\ Len(PriorMerged(2)) > 0
  /\ \E t \in InputTokens : Len(t) = 2 /\ CountInput(t) = 2
  /\ Cardinality({g \in 1..Len(terminal) : terminal[g].cluster.length = 2}) >= 2

\* ---------------------------------------------------------------- C6
\* C6: a line with zero tokens is placed in no group: no group of length 0
\* is ever in the worklist, no template has lineLength 0 or the empty
\* identity, and blank lines add nothing to any totalLines.
C6_BlankLinesSkipped ==
  /\ \A i \in 1..Len(cluster_candidates) : cluster_candidates[i].length # 0
  /\ \A e \in DOMAIN final_clusters :
       e # << >> /\ final_clusters[e].line_len # 0
  /\ TotalOfLen(0) = 0

\* ---------------------------------------------------------------- C8
\* C8: every literal token of a finalized group's template equals the token
\* at that position in every member of the group; a group finalized with
\* empty fixedPositions is single-member or has all members identical.
C8_LiteralsAgree ==
  \A g \in 1..Len(terminal) :
    LET cluster == terminal[g].cluster
        tokens  == SelectSeq(terminal[g].event, LAMBDA x : x # SP)
    IN /\ \A k \in 1..Len(tokens) :
            tokens[k] # VAR_TOKEN =>
              \A i \in 1..Len(cluster.lines) : cluster.lines[i][k] = tokens[k]
       /\ cluster.indexes = {} =>
            \A i \in 1..Len(cluster.lines) : cluster.lines[i] = cluster.lines[1]

\* ---------------------------------------------------------------- C9
\* C9: for a group of at least two members, find_cluster_position returns a
\* qualifying position (unfixed, marker-free, at least two distinct values,
\* distinctCount / memberCount < threshold) of the least distinctCount among
\* the qualifying ones, and no-split exactly when none qualifies; after the
\* call every previously unfixed, marker-free position with exactly one
\* distinct value is in the group's fixedPositions.
C9_SplitPosition ==
  (call # << >> /\ Len(call[1].cluster.lines) >= 2) =>
    LET cluster == call[1].cluster
        p       == call[1].position
        qual    == {q \in Positions(cluster) : Qualifies(cluster, q)}
    IN /\ (p = None) <=> (qual = {})
       /\ p # None =>
            /\ p \in qual
            /\ \A q \in qual : Cardinality(ValuesAt(cluster, q))
                                 >= Cardinality(ValuesAt(cluster, p))
       /\ \A q \in Positions(cluster) \ cluster.indexes :
            (VAR_TOKEN \notin ValuesAt(cluster, q)
               /\ Cardinality(ValuesAt(cluster, q)) = 1)
            => q \in call[1].indexes

C9_Witness ==
  /\ call # << >>
  /\ Len(call[1].cluster.lines) >= 2
  /\ call[1].position # None
  /\ \E q \in Positions(call[1].cluster) :
       /\ Qualifies(call[1].cluster, q)
       /\ Cardinality(ValuesAt(call[1].cluster, q))
            > Cardinality(ValuesAt(call[1].cluster, call[1].position))

\* ---------------------------------------------------------------- C10
\* A split step: the parent's fixedPositions do not cover all positions, the
\* split position was not fixed and every child's fixedPositions are the
\* parent's plus the split position, and the children's members partition
\* the parent's.
C10_Split ==
  Len(next_clusters') > Len(next_clusters) =>
    LET parent   == Head(cluster_candidates)
        children == SubSeq(next_clusters', Len(next_clusters) + 1,
                           Len(next_clusters'))
        fixed    == call'[1].indexes
        p        == call'[1].position
    IN /\ parent.indexes # Positions(parent)
       /\ parent.indexes \subseteq fixed
       /\ p \in Positions(parent) \ fixed
       /\ \A k \in 1..Len(children) :
            /\ children[k].indexes = fixed \cup {p}
            /\ children[k].indexes # fixed
       /\ SumSeq([k \in 1..Len(children) |-> Len(children[k].lines)])
            = Len(parent.lines)
       /\ \A i \in 1..Len(parent.lines) :
            \E k \in 1..Len(children) :
              /\ CountIn(children[k].lines, parent.lines[i])
                   = CountIn(parent.lines, parent.lines[i])
              /\ \A j \in 1..Len(children) :
                   j # k => CountIn(children[j].lines, parent.lines[i]) = 0

\* A group of token length n is in the worklist of round n + 1 at the latest.
C10_RoundBound ==
  \A i \in 1..Len(cluster_candidates) :
    round <= cluster_candidates[i].length + 1

\* C10: the worklist of cluster_lines eventually becomes empty; every split
\* yields children whose fixedPositions strictly contain the parent's and
\* whose members partition the parent's; a group whose fixedPositions cover
\* all positions is never split; a group of token length n is finalized
\* after at most n + 1 rounds.
C10_Terminates ==
  /\ <>(pc = "done")
  /\ [][C10_Split]_vars
  /\ [](C10_RoundBound)

C10_Witness ==
  /\ pc = "done"
  /\ round = 3
  /\ \E g \in 1..Len(terminal) :
       terminal[g].cluster.length = 2 /\ Len(terminal[g].cluster.lines) >= 2

\* ---------------------------------------------------------------- C2
\* C2: for every non-blank line of the batch, find_event_in_tree on the
\* index of the batch's catalog returns an event (never None, no error)
\* that is a key of the catalog with the line's token count, and
\* extract_vars_from_line on the line and that event succeeds.
C2_MatchExtractConsistent ==
  (ret.op = "find_event_in_tree" /\ ret.line \in Range(lines)
     /\ TokenCount(ret.line) >= 1)
  => /\ ret.raised = ""
     /\ ret.value # NONE
     /\ ret.value \in DOMAIN final_clusters
     /\ TokenCount(ret.value) = TokenCount(ret.line)
     /\ extract_vars_from_line(ret.line, ret.value).raised = ""

\* ---------------------------------------------------------------- C4
\* Some template of the catalog has the line's token count and, at every
\* position, the line's token or the variable marker.
SomeTemplateFits(line) ==
  LET toks == SelectSeq(line, LAMBDA x : x # SP)
  IN \E e \in DOMAIN final_clusters :
       LET etokens == SelectSeq(e, LAMBDA x : x # SP)
       IN /\ Len(etokens) = Len(toks)
          /\ final_clusters[e].line_len = Len(toks)
          /\ \A k \in 1..Len(toks) :
               etokens[k] = toks[k] \/ etokens[k] = VAR_TOKEN

\* C4: find_event_in_tree returns None, without raising, for every line (of
\* at least one token) that has no matching template, also when the index
\* has no bucket for the line's token count.
C4_NotFoundIsOrdinary ==
  (ret.op = "find_event_in_tree" /\ TokenCount(ret.line) >= 1
     /\ (TokenCount(ret.line) \notin DOMAIN tree \/ ~SomeTemplateFits(ret.line)))
  => ret.raised = "" /\ ret.value = NONE

\* ---------------------------------------------------------------- C5
\* The longest prefix of the variables that is a node of the tree.
MatchedDepth(var_tree, variables) ==
  Cardinality({n \in 1..Len(variables) :
                 SubSeq(variables, 1, n) \in DOMAIN var_tree})

\* C5: for a known template and a non-empty variables list, calculate_prob
\* raises nothing (also when the first value is absent) and, when the first
\* value is present, returns variableProbability = count of the last node
\* matched / totalLines of the template.
C5_VariableProbability ==
  (ret.op = "calculate_prob" /\ ret.event \in DOMAIN final_clusters
     /\ ret.variables # << >>)
  => LET entry == final_clusters[ret.event]
         depth == MatchedDepth(entry.vars, ret.variables)
     IN /\ ret.raised = ""
        /\ depth >= 1 =>
             /\ ret.prob[3] = entry.vars[SubSeq(ret.variables, 1, depth)]
             /\ ret.prob[4] = entry.total_lines

\* ---------------------------------------------------------------- C7
\* C7: extract_vars_from_line reports an error whenever the line's token
\* count differs from the template's; with equal counts it returns the line
\* tokens at the template's marker positions, left to right.
C7_ShapeMismatchReported ==
  ret.op = "extract_vars_from_line" =>
    LET toks    == SelectSeq(ret.line, LAMBDA x : x # SP)
        etokens == SelectSeq(ret.event, LAMBDA x : x # SP)
        marked  == {k \in 1..Len(etokens) : etokens[k] = VAR_TOKEN}
    IN IF Len(toks) # Len(etokens) THEN ret.raised # ""
       ELSE /\ ret.raised = ""
            /\ Len(ret.value) = Cardinality(marked)
            /\ \A j \in 1..Len(ret.value) :
                 \E k \in marked :
                   /\ Cardinality({m \in marked : m <= k}) = j
                   /\ ret.value[j] = toks[k]

====
